---- MODULE Spec2Model ----
(***************************************************************************)
(* Model of the salon-booking backend in server.js: the appointments and   *)
(* blocked_phones tables, and the request handlers that read and write     *)
(* them.  Every handler is a chain of datastore statements whose callbacks *)
(* run later on the event loop, so the statements of different requests    *)
(* interleave freely.  One action is one statement together with the       *)
(* synchronous code around it, which touches nothing but the request's own *)
(* data: the code of its callback, and for the first statement the code of *)
(* the handler before it.                                                  *)
(*                                                                         *)
(* Left out: the datastore error paths (HTTP 500), the createdAt and       *)
(* reminderSent columns, and the demo rows seeded into an empty table,     *)
(* which all lie on dates other than the one modelled here (appointment    *)
(* ids are therefore relative to the last seeded id).                      *)
(***************************************************************************)
EXTENDS Integers, Sequences, FiniteSets, TLC

\* ------------------------------------------------------------------ bounds
\* rows the appointments table may hold
MaxAppts == 2
\* POST /api/book requests in flight at once
NumBook == 2
\* POST /api/admin/action requests in flight at once
NumAct == 1

BookReqs == 1..NumBook
ActReqs == 1..NumAct

\* ------------------------------------------------------------ text helpers
Digits == {"0", "1", "2", "3", "4", "5", "6", "7", "8", "9"}

Upper == <<"A", "B", "C", "D", "E", "F", "G", "H", "I", "J", "K", "L", "M",
           "N", "O", "P", "Q", "R", "S", "T", "U", "V", "W", "X", "Y", "Z">>

Lower == <<"a", "b", "c", "d", "e", "f", "g", "h", "i", "j", "k", "l", "m",
           "n", "o", "p", "q", "r", "s", "t", "u", "v", "w", "x", "y", "z">>

\* String.prototype.toLowerCase, one character
toLowerCaseChar(c) ==
    IF \E i \in 1..26 : Upper[i] = c
    THEN Lower[CHOOSE i \in 1..26 : Upper[i] = c]
    ELSE c

\* String.prototype.toLowerCase
toLowerCase(s) == [i \in 1..Len(s) |-> toLowerCaseChar(s[i])]

\* String.prototype.toUpperCase, one character
toUpperCaseChar(c) ==
    IF \E i \in 1..26 : Lower[i] = c
    THEN Upper[CHOOSE i \in 1..26 : Lower[i] = c]
    ELSE c

\* String.prototype.toUpperCase
toUpperCase(s) == [i \in 1..Len(s) |-> toUpperCaseChar(s[i])]

\* String.prototype.startsWith
startsWith(s, pre) == Len(s) >= Len(pre) /\ SubSeq(s, 1, Len(pre)) = pre

\* String.prototype.includes, for a single character
includes(s, c) == \E i \in 1..Len(s) : s[i] = c

\* String.prototype.substring(0, n)
substring0(s, n) == SubSeq(s, 1, IF Len(s) < n THEN Len(s) ELSE n)

RECURSIVE trimStart(_)
trimStart(s) == IF s # <<>> /\ Head(s) = " " THEN trimStart(Tail(s)) ELSE s

RECURSIVE trimEnd(_)
trimEnd(s) ==
    IF s # <<>> /\ s[Len(s)] = " " THEN trimEnd(SubSeq(s, 1, Len(s) - 1)) ELSE s

\* String.prototype.trim
trim(s) == trimEnd(trimStart(s))

\* /^\d{4}-\d{2}-\d{2}$/.test(date)
DATE_REGEX(s) ==
    /\ Len(s) = 10
    /\ \A i \in 1..10 : IF i \in {5, 8} THEN s[i] = "-" ELSE s[i] \in Digits

\* clientPhone.replace(/[^0-9+]/g,'')
stripPhone(p) == SelectSeq(p, LAMBDA c : c \in Digits \cup {"+"})

\* if (phone.startsWith('+359')) phone='0'+phone.slice(4)
canonPhone(cp) ==
    IF startsWith(cp, <<"+", "3", "5", "9">>)
    THEN <<"0">> \o SubSeq(cp, 5, Len(cp))
    ELSE cp

\* longest client name and e-mail address that is stored
NAME_MAX == 100

\* clientName.replace(/[<>]/g,'').trim().substring(0,100)
cleanName(n) ==
    substring0(trim(SelectSeq(n, LAMBDA c : c \notin {"<", ">"})), NAME_MAX)

\* clientEmail ? clientEmail.trim().toLowerCase().substring(0,100) : null
cleanEmail(e) ==
    IF e # <<>> THEN substring0(toLowerCase(trim(e)), NAME_MAX) ELSE <<>>

\* ----------------------------------------------------------- configuration
\* config.workHours.slots
WORK_HOURS == <<"09:00", "09:30">>

\* config.services, as the name -> price table
SERVICES == [s \in {"Haircut", "Manicure"} |->
                IF s = "Haircut" THEN 25 ELSE 35]

\* config.booking.phoneRegex: a local number, or the same with the +359 prefix
PHONE_REGEX(cp) ==
    \/ /\ Len(cp) = 10
       /\ cp[1] = "0"
       /\ \A i \in 2..10 : cp[i] \in Digits
    \/ /\ Len(cp) = 13
       /\ startsWith(cp, <<"+", "3", "5", "9">>)
       /\ \A i \in 5..13 : cp[i] \in Digits

\* config.booking.confirmationPrefix || 'FY'
CONFIRMATION_PREFIX == <<"F", "Y">>

\* the rosters config.stylists may hold
Rosters == {<<>>, <<"Iva">>, <<"Iva", "Mia">>}

\* the rosters of the slot specification: none, and three stylists
SlotRosters == {<<>>, <<"Iva", "Mia", "Zoe">>}

\* the roster of the stylist-choice and release specifications
Roster2 == <<"Iva", "Mia">>

\* the roster of the concurrent specification
Roster1 == <<"Iva">>

\* no stylist: stylist||null, and the falsy test of if (stylist)
NoStylist == ""

\* an absent text field (undefined, null or '')
Absent == <<>>

\* --------------------------------------------------------- request inputs
Date1 == <<"2", "0", "3", "0", "-", "0", "1", "-", "1", "5">>
BadDate == <<"1", "5", ".", "0", "1", ".", "2", "0", "3", "0">>

PhoneA == <<"0", "8", "8", "7", "1", "2", "3", "4", "5", "6">>
PhoneAIntl == <<"+", "3", "5", "9", " ", "8", "8", "7", "1", "2", "3", "4", "5", "6">>
PhoneB == <<"0", "8", "9", "8", "7", "6", "5", "4", "3", "2">>
BadPhone == <<"1", "2", "3">>

Name1 == <<" ", "<", "A", "n", "a", ">">>
Name2 == <<"E", "v", "a">>

Email1 == <<"A", "@", "b", ".", "c">>
BadEmail == <<"a", "b", "c">>

\* the random parts generateConfirmationCode may draw
CodeSuffixes == {<<"A", "B", "C", "1", "2", "3">>}

\* two random parts, which generateConfirmationCode may draw again
CodeDraws == {<<"A", "B", "C", "1", "2", "3">>, <<"Z", "9", "Z", "9", "Z", "9">>}

Body(d, t, sv, n, p, e, st) ==
    [date |-> d, time |-> t, service |-> sv, clientName |-> n,
     clientPhone |-> p, clientEmail |-> e, stylist |-> st]

\* the bodies of the concurrent specification: one slot, asked for with and
\* without a stylist, and one body that fails validation
BookBodies ==
    {Body(Date1, "09:00", "Haircut", Name1, PhoneAIntl, Absent, st) :
        st \in {NoStylist, "Iva"}}
    \cup {Body(Date1, "09:00", "Haircut", Name1, BadPhone, Absent, "Iva")}

\* the bodies of the sequential specification: every grid time with every
\* stylist choice, and one body that fails validation
SeqBodies ==
    {Body(Date1, t, "Haircut", Name1, PhoneAIntl, Absent, st) :
        t \in {"09:00", "09:30"}, st \in {NoStylist, "Iva", "Mia"}}
    \cup {Body(BadDate, "09:00", "Haircut", Name1, PhoneAIntl, Absent, "Iva")}

\* the bodies of the validation specification: every field right, wrong or
\* missing, in every combination
ValBodies ==
    {Body(d, t, sv, Name1, p, e, NoStylist) :
        d \in {Date1, BadDate, Absent}, t \in {"09:00", "09:30", "25:00"},
        sv \in {"Haircut", "Shave"}, p \in {PhoneAIntl, BadPhone},
        e \in {Absent, Email1, BadEmail}}

\* the bodies of the confirmation-code specification: both grid times
CodeBodies ==
    {Body(Date1, t, "Haircut", Name1, PhoneAIntl, Absent, "Iva") :
        t \in {"09:00", "09:30"}}

\* the bodies of the slot specification: both grid times, with and without
\* a stylist
SlotBodies ==
    {Body(Date1, t, "Haircut", Name1, PhoneAIntl, Absent, st) :
        t \in {"09:00", "09:30"}, st \in {NoStylist, "Iva", "Mia"}}

\* the body of the read specification
ReadBodies == {Body(Date1, "09:00", "Haircut", Name1, PhoneAIntl, Absent, "Iva")}

\* the codes GET /api/status is asked for: the one of a row as it is stored,
\* in lower case and in mixed case, one of no row, and one too short
StatusCodes ==
    {<<"F", "Y", "-", "A", "B", "C", "1", "2", "3">>,
     <<"f", "y", "-", "a", "b", "c", "1", "2", "3">>,
     <<"F", "y", "-", "a", "B", "c", "1", "2", "3">>,
     <<"F", "Y", "-", "Q", "Q", "Q", "7", "7", "7">>,
     <<"f", "y", "-", "1">>}

BlockInputs == {PhoneA, PhoneAIntl}

\* the phones of the blocklist specification: one client's number in its two
\* forms, and another client's
BlockPhones == {PhoneA, PhoneAIntl, PhoneB}

\* the bodies of the blocklist specification: both grid times, every phone
BlockBodies ==
    {Body(Date1, t, "Haircut", Name1, p, Absent, "Iva") :
        t \in {"09:00", "09:30"}, p \in BlockPhones}

ActIds == 0..MaxAppts

ActActions == {"confirm", "reject", "delete"}

EditNames == {Name2}

\* what a notification attempt may do
NotifyOutcomes == {"disabled", "true", "false", "throw"}

\* what an awaited notification attempt may do: the same, or never settle
AwaitOutcomes == NotifyOutcomes \cup {"never"}

\* the bodies of the moderation specification: one slot, both services, with
\* and without an e-mail address
ActBodies ==
    {Body(Date1, "09:00", sv, Name1, PhoneAIntl, e, "Iva") :
        sv \in {"Haircut", "Manicure"}, e \in {Absent, Email1}}

\* ------------------------------------------------------------------ state
VARIABLES
    STYLISTS,        \* config.stylists || []
    appointments,    \* the appointments table; a row's id is its index
    blocked_phones,  \* the phone column of the blocked_phones table
    book,            \* the POST /api/book requests
    act,             \* the POST /api/admin/action requests
    reads            \* the GET request answered last

vars == <<STYLISTS, appointments, blocked_phones, book, act, reads>>

NoRes == [status |-> 0, error |-> "", id |-> 0, confirmationCode |-> Absent,
          telegram |-> FALSE, email |-> FALSE]

Fail(code, msg) == [NoRes EXCEPT !.status = code, !.error = msg]

IdleBook ==
    [pc |-> "idle", date |-> Absent, time |-> "", service |-> "", price |-> 0,
     st |-> NoStylist, name |-> Absent, phone |-> Absent, em |-> Absent,
     code |-> Absent, notifyFailed |-> FALSE, res |-> NoRes]

\* the columns of the fetched row that the action handler reads
NoAppt == [clientPhone |-> Absent, clientEmail |-> Absent]

IdleAct ==
    [pc |-> "idle", id |-> 0, action |-> "", status |-> "", appt |-> NoAppt,
     res |-> NoRes]

\* the columns GET /api/status/:code answers with
NoRow == [status |-> "", date |-> Absent, time |-> "", service |-> "",
          name |-> Absent, stylist |-> NoStylist]

\* no GET request answered yet.  For a status or an available-stylists
\* request, at is the table it was answered from; for a status request, again
\* tells that the request before it was a status request answered from the
\* same table.
NoRead ==
    [op |-> "none", code |-> Absent, date |-> Absent, time |-> "", http |-> 0,
     row |-> NoRow, slots |-> <<>>, stylists |-> <<>>, at |-> <<>>,
     again |-> FALSE]

Ids == 1..Len(appointments)

Active(row) == row.status \in {"pending", "confirmed"}

Init ==
    /\ STYLISTS = Roster1
    /\ appointments = <<>>
    /\ blocked_phones = {}
    /\ book = [r \in BookReqs |-> IdleBook]
    /\ act = [a \in ActReqs |-> IdleAct]
    /\ reads = NoRead

\* ---------------------------------------------------------- read handlers
\* mutant of slotRows: the rows of every status are counted
slotRowsAnyStatus(date, stylist) ==
    {i \in Ids :
        /\ appointments[i].date = date
        /\ (stylist # NoStylist => appointments[i].stylist = stylist)}

\* the rows "WHERE date=? AND status IN ('pending','confirmed')" of GET
\* /api/slots, with "AND stylist=?" when a stylist is asked for
slotRows(date, stylist) ==
    {i \in Ids :
        /\ appointments[i].date = date
        /\ Active(appointments[i])
        /\ (stylist # NoStylist => appointments[i].stylist = stylist)}

\* stylist ? 1 : (STYLISTS.length||1)
slotTotal(stylist) ==
    IF stylist # NoStylist THEN 1
    ELSE IF Len(STYLISTS) = 0 THEN 1 ELSE Len(STYLISTS)

\* GET /api/slots: one entry per work hour
computeSlots(date, stylist) ==
    LET booked(t) ==
            Cardinality({i \in slotRows(date, stylist) : appointments[i].time = t})
        total == slotTotal(stylist)
    IN  [k \in 1..Len(WORK_HOURS) |->
            [time |-> WORK_HOURS[k],
             status |-> IF booked(WORK_HOURS[k]) >= total THEN "taken" ELSE "free",
             available |-> total - booked(WORK_HOURS[k])]]

\* GET /api/slots answers 400 without a well-formed date
slotsAccepts(date) == date # Absent /\ DATE_REGEX(date)

\* mutant of availableStylists: the rows of every status count as booked
availableStylistsAnyStatus(date, time) ==
    LET booked == {appointments[i].stylist :
                     i \in {j \in Ids : /\ appointments[j].date = date
                                        /\ appointments[j].time = time}}
    IN  SelectSeq(STYLISTS, LAMBDA s : s \notin booked)

\* GET /api/available-stylists: the roster entries without a pending or
\* confirmed row at that date and time
availableStylists(date, time) ==
    LET booked == {appointments[i].stylist :
                     i \in {j \in Ids : /\ appointments[j].date = date
                                        /\ appointments[j].time = time
                                        /\ Active(appointments[j])}}
    IN  SelectSeq(STYLISTS, LAMBDA s : s \notin booked)

\* GET /api/slots
GetSlots(date, stylist) ==
    /\ reads' =
         IF ~slotsAccepts(date) THEN [NoRead EXCEPT !.op = "slots", !.http = 400]
         ELSE [NoRead EXCEPT !.op = "slots", !.http = 200,
                             !.slots = computeSlots(date, stylist)]
    /\ UNCHANGED <<STYLISTS, appointments, blocked_phones, book, act>>

\* GET /api/available-stylists
GetAvailableStylists(date, time) ==
    /\ reads' =
         IF date = Absent \/ time = ""
         THEN [NoRead EXCEPT !.op = "stylists", !.http = 400]
         ELSE [NoRead EXCEPT !.op = "stylists", !.http = 200,
                             !.date = date, !.time = time,
                             !.at = appointments,
                             !.stylists = availableStylists(date, time)]
    /\ UNCHANGED <<STYLISTS, appointments, blocked_phones, book, act>>

\* mutant of statusRows: the code is compared as it was sent
statusRowsAsSent(code) ==
    {i \in Ids : appointments[i].confirmationCode = code}

\* SELECT ... FROM appointments WHERE confirmationCode=?, with
\* code.toUpperCase()
statusRows(code) ==
    {i \in Ids : appointments[i].confirmationCode = toUpperCase(code)}

\* GET /api/status/:code: of the rows with the code, the statement returns
\* the first, which is the one of the lowest id
GetStatus(code) ==
    /\ reads' =
         [NoRead EXCEPT
            !.op = "status", !.code = code,
            !.at = appointments,
            !.again = (reads.op = "status"
                       /\ reads.at = appointments),
            !.http = IF code = Absent \/ Len(code) < 5 THEN 400
                     ELSE IF statusRows(code) = {} THEN 404 ELSE 200,
            !.row = IF code = Absent \/ Len(code) < 5 \/ statusRows(code) = {}
                    THEN NoRow
                    ELSE LET row == appointments[
                                 CHOOSE i \in statusRows(code) :
                                     \A j \in statusRows(code) : i <= j]
                         IN  [status |-> row.status, date |-> row.date,
                              time |-> row.time, service |-> row.service,
                              name |-> row.clientName,
                              stylist |-> row.stylist]]
    /\ UNCHANGED <<STYLISTS, appointments, blocked_phones, book, act>>

\* ---------------------------------------------------------- POST /api/book
generateConfirmationCode(suffix) == CONFIRMATION_PREFIX \o <<"-">> \o suffix

\* mutant of bookValidate: the phone is checked before the date
bookValidatePhoneFirst(b) ==
    IF \/ b.date = Absent \/ b.time = "" \/ b.clientName = Absent
       \/ b.clientPhone = Absent \/ b.service = ""
    THEN "Missing fields"
    ELSE IF ~PHONE_REGEX(stripPhone(b.clientPhone)) THEN "Invalid phone"
    ELSE IF ~DATE_REGEX(b.date) THEN "Invalid date"
    ELSE IF ~\E k \in 1..Len(WORK_HOURS) : WORK_HOURS[k] = b.time
    THEN "Invalid time"
    ELSE IF b.service \notin DOMAIN SERVICES THEN "Invalid service"
    ELSE IF b.clientEmail # Absent /\ ~includes(b.clientEmail, "@")
    THEN "Invalid email"
    ELSE ""

\* the checks of the request body, in the order of the handler; "" when the
\* body passes them all
bookValidate(b) ==
    IF \/ b.date = Absent \/ b.time = "" \/ b.clientName = Absent
       \/ b.clientPhone = Absent \/ b.service = ""
    THEN "Missing fields"
    ELSE IF ~DATE_REGEX(b.date) THEN "Invalid date"
    ELSE IF ~\E k \in 1..Len(WORK_HOURS) : WORK_HOURS[k] = b.time
    THEN "Invalid time"
    ELSE IF b.service \notin DOMAIN SERVICES THEN "Invalid service"
    ELSE IF ~PHONE_REGEX(stripPhone(b.clientPhone)) THEN "Invalid phone"
    ELSE IF b.clientEmail # Absent /\ ~includes(b.clientEmail, "@")
    THEN "Invalid email"
    ELSE ""

\* mutant of blockedRow: the blocklist is not consulted
blockedRowSkipped(phone) == FALSE

\* SELECT id FROM blocked_phones WHERE phone=?
blockedRow(phone) == phone \in blocked_phones

\* the handler through its first statement: validation and normalisation of
\* the body, the blocklist lookup and its callback
BookStart(r, b, suffix) ==
    /\ book[r].pc \in {"idle", "done"}
    /\ book' = [book EXCEPT ![r] =
         IF bookValidate(b) # ""
         THEN [IdleBook EXCEPT !.pc = "done", !.res = Fail(400, bookValidate(b))]
         ELSE IF blockedRow(canonPhone(stripPhone(b.clientPhone)))
         THEN [IdleBook EXCEPT !.pc = "done", !.res = Fail(403, "blocked")]
         ELSE [IdleBook EXCEPT
                 !.pc = "get_slot",
                 !.date = b.date, !.time = b.time, !.service = b.service,
                 !.price = SERVICES[b.service],
                 !.phone = canonPhone(stripPhone(b.clientPhone)),
                 !.name = cleanName(b.clientName),
                 !.em = cleanEmail(b.clientEmail),
                 !.st = b.stylist,
                 !.code = generateConfirmationCode(suffix)]]
    /\ UNCHANGED <<reads, STYLISTS, appointments, blocked_phones, act>>

\* mutant of slotQuery: the status filter is missing
slotQueryAnyStatus(date, time, st) ==
    {i \in Ids :
        /\ appointments[i].date = date
        /\ appointments[i].time = time
        /\ (st # NoStylist => appointments[i].stylist = st)}

\* SELECT id FROM appointments WHERE date=? AND time=? AND status IN
\* ('pending','confirmed'), with "AND stylist=?" when st is not null
slotQuery(date, time, st) ==
    {i \in Ids :
        /\ appointments[i].date = date
        /\ appointments[i].time = time
        /\ Active(appointments[i])
        /\ (st # NoStylist => appointments[i].stylist = st)}

\* mutant of BookGetSlot: the lookup never filters by stylist
BookGetSlotAnyStylist(r) ==
    /\ book[r].pc = "get_slot"
    /\ book' = [book EXCEPT ![r] =
         IF slotQuery(book[r].date, book[r].time, NoStylist) # {}
         THEN [IdleBook EXCEPT !.pc = "done", !.res = Fail(409, "Slot taken")]
         ELSE [@ EXCEPT !.pc = "insert"]]
    /\ UNCHANGED <<reads, STYLISTS, appointments, blocked_phones, act>>

\* the slot lookup and its callback
BookGetSlot(r) ==
    /\ book[r].pc = "get_slot"
    /\ book' = [book EXCEPT ![r] =
         IF slotQuery(book[r].date, book[r].time, book[r].st) # {}
         THEN [IdleBook EXCEPT !.pc = "done", !.res = Fail(409, "Slot taken")]
         ELSE [@ EXCEPT !.pc = "insert"]]
    /\ UNCHANGED <<reads, STYLISTS, appointments, blocked_phones, act>>

\* the row INSERT INTO appointments writes; status defaults to 'pending'
newRow(q) ==
    [date |-> q.date, time |-> q.time, service |-> q.service,
     price |-> q.price, stylist |-> q.st, clientName |-> q.name,
     clientPhone |-> q.phone, clientEmail |-> q.em, status |-> "pending",
     confirmationCode |-> q.code]

\* mutant of BookInsert: the operator notification is awaited, and its
\* failure rolls the row back and fails the request
BookInsertAwaited(r, outcome) ==
    /\ book[r].pc = "insert"
    /\ Len(appointments) < MaxAppts
    /\ appointments' =
         IF outcome \in {"false", "throw"} THEN appointments
         ELSE Append(appointments, newRow(book[r]))
    /\ book' = [book EXCEPT ![r] =
         [IdleBook EXCEPT
            !.pc = "done",
            !.notifyFailed = (outcome \in {"false", "throw"}),
            !.res = IF outcome \in {"false", "throw"} THEN Fail(500, "Failed")
                    ELSE [NoRes EXCEPT !.status = 200,
                                       !.id = Len(appointments) + 1,
                                       !.confirmationCode = book[r].code]]]
    /\ UNCHANGED <<reads, STYLISTS, blocked_phones, act>>

\* the INSERT statement and its callback: the operator notification, fired
\* and not awaited, then the response
BookInsert(r, outcome) ==
    /\ book[r].pc = "insert"
    /\ Len(appointments) < MaxAppts
    /\ appointments' = Append(appointments, newRow(book[r]))
    /\ book' = [book EXCEPT ![r] =
         [IdleBook EXCEPT
            !.pc = "done",
            !.notifyFailed = (outcome \in {"false", "throw"}),
            !.res = [NoRes EXCEPT !.status = 200,
                                  !.id = Len(appointments) + 1,
                                  !.confirmationCode = book[r].code]]]
    /\ UNCHANGED <<reads, STYLISTS, blocked_phones, act>>

\* -------------------------------------------------- POST /api/admin/action
\* mutant of actionStatus: a rejection puts the row back to pending
actionStatusReopens(action) ==
    IF action = "confirm" THEN "confirmed" ELSE "pending"

\* action==='confirm'?'confirmed':'rejected'
actionStatus(action) == IF action = "confirm" THEN "confirmed" ELSE "rejected"

\* mutant of ActStart: the fetched row is not checked, and an unknown id is
\* answered as a success
ActStartUnchecked(a, id, action) ==
    /\ act[a].pc \in {"idle", "done"}
    /\ act' = [act EXCEPT ![a] =
         IF id = 0 \/ action \notin {"confirm", "reject"}
         THEN [IdleAct EXCEPT !.pc = "done", !.res = Fail(400, "Invalid")]
         ELSE IF id \notin Ids
         THEN [IdleAct EXCEPT !.pc = "done", !.res = [NoRes EXCEPT !.status = 200]]
         ELSE [IdleAct EXCEPT
                 !.pc = "update", !.id = id, !.action = action,
                 !.status = actionStatus(action),
                 !.appt = [clientPhone |-> appointments[id].clientPhone,
                           clientEmail |-> appointments[id].clientEmail]]]
    /\ UNCHANGED <<reads, STYLISTS, appointments, blocked_phones, book>>

\* the handler through its first statement: the check of the body, SELECT *
\* FROM appointments WHERE id=? and its callback
ActStart(a, id, action) ==
    /\ act[a].pc \in {"idle", "done"}
    /\ act' = [act EXCEPT ![a] =
         IF id = 0 \/ action \notin {"confirm", "reject"}
         THEN [IdleAct EXCEPT !.pc = "done", !.res = Fail(400, "Invalid")]
         ELSE IF id \notin Ids
         THEN [IdleAct EXCEPT !.pc = "done", !.res = Fail(404, "Not found")]
         ELSE [IdleAct EXCEPT
                 !.pc = "update", !.id = id, !.action = action,
                 !.status = actionStatus(action),
                 !.appt = [clientPhone |-> appointments[id].clientPhone,
                           clientEmail |-> appointments[id].clientEmail]]]
    /\ UNCHANGED <<reads, STYLISTS, appointments, blocked_phones, book>>

\* mutant of ActUpdate: the UPDATE also clears the price of the row
ActUpdateClearsPrice(a) ==
    /\ act[a].pc = "update"
    /\ appointments' = [appointments EXCEPT ![act[a].id].status = act[a].status,
                                            ![act[a].id].price = 0]
    /\ act' = [act EXCEPT ![a].pc = "notify"]
    /\ UNCHANGED <<reads, STYLISTS, blocked_phones, book>>

\* UPDATE appointments SET status=? WHERE id=?
ActUpdate(a) ==
    /\ act[a].pc = "update"
    /\ appointments' = [appointments EXCEPT ![act[a].id].status = act[a].status]
    /\ act' = [act EXCEPT ![a].pc = "notify"]
    /\ UNCHANGED <<reads, STYLISTS, blocked_phones, book>>

\* mutant of ActNotify: a notification attempt that throws fails the request
ActNotifyPropagates(a, tg, em) ==
    /\ act[a].pc = "notify"
    /\ act[a].action # "confirm" => tg = "disabled"
    /\ act[a].appt.clientEmail = Absent => em = "disabled"
    /\ act' = [act EXCEPT ![a] =
         IF tg = "never" \/ em = "never"
         THEN [IdleAct EXCEPT !.pc = "suspended"]
         ELSE IF tg = "throw" \/ em = "throw"
         THEN [IdleAct EXCEPT !.pc = "done", !.res = Fail(500, "Failed")]
         ELSE [IdleAct EXCEPT
                 !.pc = "done",
                 !.res = [NoRes EXCEPT !.status = 200,
                                       !.telegram = (tg = "true"),
                                       !.email = (em = "true")]]]
    /\ UNCHANGED <<reads, STYLISTS, appointments, blocked_phones, book>>

\* the callback of the UPDATE: the notification attempts are awaited one
\* after the other, and the response is sent after them.  The messaging
\* attempt is made on confirm only, the e-mail attempt for a row with an
\* e-mail address only.  An attempt that never settles leaves the callback
\* suspended at its await.
ActNotify(a, tg, em) ==
    /\ act[a].pc = "notify"
    /\ act[a].action # "confirm" => tg = "disabled"
    /\ act[a].appt.clientEmail = Absent => em = "disabled"
    /\ act' = [act EXCEPT ![a] =
         IF tg = "never" \/ em = "never"
         THEN [IdleAct EXCEPT !.pc = "suspended"]
         ELSE [IdleAct EXCEPT
                 !.pc = "done",
                 !.res = [NoRes EXCEPT !.status = 200,
                                       !.telegram = (tg = "true"),
                                       !.email = (em = "true")]]]
    /\ UNCHANGED <<reads, STYLISTS, appointments, blocked_phones, book>>

\* ---------------------------------------------------- POST /api/admin/edit
\* UPDATE appointments SET clientName=? WHERE id=?
Edit(id, clientName) ==
    /\ id # 0 /\ clientName # Absent
    /\ appointments' =
         [i \in Ids |-> IF i = id
                        THEN [appointments[i] EXCEPT
                                !.clientName = cleanName(clientName)]
                        ELSE appointments[i]]
    /\ UNCHANGED <<reads, STYLISTS, blocked_phones, book, act>>

\* --------------------------------------------- POST /api/admin/edit-client
\* UPDATE appointments SET clientName=? WHERE clientPhone=?; the phone is
\* compared as it was sent
EditClient(phone, clientName) ==
    /\ phone # Absent /\ clientName # Absent
    /\ appointments' =
         [i \in Ids |-> IF appointments[i].clientPhone = phone
                        THEN [appointments[i] EXCEPT
                                !.clientName = cleanName(clientName)]
                        ELSE appointments[i]]
    /\ UNCHANGED <<reads, STYLISTS, blocked_phones, book, act>>

\* --------------------------- POST /api/admin/block-phone and unblock-phone
\* mutant of BlockPhone: the +359 prefix is not rewritten
BlockPhoneAsStripped(phone) ==
    /\ phone # Absent
    /\ blocked_phones' = blocked_phones \cup {stripPhone(phone)}
    /\ UNCHANGED <<reads, STYLISTS, appointments, book, act>>

\* INSERT OR IGNORE INTO blocked_phones (phone,reason) VALUES (?,?)
BlockPhone(phone) ==
    /\ phone # Absent
    /\ blocked_phones' = blocked_phones \cup {canonPhone(stripPhone(phone))}
    /\ UNCHANGED <<reads, STYLISTS, appointments, book, act>>

\* DELETE FROM blocked_phones WHERE phone=?
UnblockPhone(phone) ==
    /\ phone # Absent
    /\ blocked_phones' = blocked_phones \ {canonPhone(stripPhone(phone))}
    /\ UNCHANGED <<reads, STYLISTS, appointments, book, act>>

\* ---------------------------------------------------------- specification
Next ==
    \/ \E r \in BookReqs, b \in BookBodies, x \in CodeSuffixes : BookStart(r, b, x)
    \/ \E r \in BookReqs : BookGetSlot(r)
    \/ \E r \in BookReqs, o \in NotifyOutcomes : BookInsert(r, o)
    \/ \E a \in ActReqs, id \in ActIds, x \in ActActions : ActStart(a, id, x)
    \/ \E a \in ActReqs : ActUpdate(a)
    \/ \E a \in ActReqs, tg \in NotifyOutcomes, em \in NotifyOutcomes :
          ActNotify(a, tg, em)
    \/ \E id \in ActIds, n \in EditNames : Edit(id, n)
    \/ \E p \in BlockInputs, n \in EditNames : EditClient(p, n)
    \/ \E p \in BlockInputs : BlockPhone(p)
    \/ \E p \in BlockInputs : UnblockPhone(p)

Spec == Init /\ [][Next]_vars

\* ------------------------------------------- the sequential specification
\* no request is between two of its statements
Quiet ==
    /\ \A r \in BookReqs : book[r].pc \in {"idle", "done"}
    /\ \A a \in ActReqs : act[a].pc \in {"idle", "done"}

SeqInit ==
    /\ STYLISTS \in Rosters
    /\ appointments = <<>>
    /\ blocked_phones = {}
    /\ book = [r \in BookReqs |-> IdleBook]
    /\ act = [a \in ActReqs |-> IdleAct]
    /\ reads = NoRead

\* the handlers run one after the other: a request starts only when every
\* other one has been answered
SeqNext ==
    \/ \E b \in SeqBodies, x \in CodeSuffixes : Quiet /\ BookStart(1, b, x)
    \/ \E r \in BookReqs : BookGetSlot(r)
    \/ \E r \in BookReqs, o \in NotifyOutcomes : BookInsert(r, o)
    \/ \E a \in ActReqs, id \in ActIds, x \in ActActions :
          Quiet /\ ActStart(a, id, x)
    \/ \E a \in ActReqs : ActUpdate(a)
    \/ \E a \in ActReqs, tg \in NotifyOutcomes, em \in NotifyOutcomes :
          ActNotify(a, tg, em)
    \/ \E id \in ActIds, n \in EditNames : Quiet /\ Edit(id, n)
    \/ \E p \in BlockInputs, n \in EditNames : Quiet /\ EditClient(p, n)
    \/ \E p \in BlockInputs : Quiet /\ BlockPhone(p)
    \/ \E p \in BlockInputs : Quiet /\ UnblockPhone(p)

SeqSpec == SeqInit /\ [][SeqNext]_vars

\* -------------------------------------------- the moderation specification
\* one client books, with and without an e-mail address, while the
\* administrator confirms, rejects and edits; an awaited notification may
\* never settle
ActNext ==
    \/ \E b \in ActBodies, x \in CodeSuffixes : BookStart(1, b, x)
    \/ BookGetSlot(1)
    \/ \E o \in NotifyOutcomes : BookInsert(1, o)
    \/ \E a \in ActReqs, id \in ActIds, x \in ActActions : ActStart(a, id, x)
    \/ \E a \in ActReqs : ActUpdate(a)
    \/ \E a \in ActReqs, tg \in AwaitOutcomes, em \in AwaitOutcomes :
          ActNotify(a, tg, em)
    \/ \E id \in ActIds, n \in EditNames : Edit(id, n)
    \/ \E p \in BlockInputs, n \in EditNames : EditClient(p, n)

ActSpec == Init /\ [][ActNext]_vars

\* ------------------------------------- the confirmation-code specification
\* bookings of two slots, each with a code drawn at random, next to the
\* administrator's actions and edits
CodeNext ==
    \/ \E b \in CodeBodies, x \in CodeDraws : BookStart(1, b, x)
    \/ BookGetSlot(1)
    \/ \E o \in NotifyOutcomes : BookInsert(1, o)
    \/ \E a \in ActReqs, id \in ActIds, x \in ActActions : ActStart(a, id, x)
    \/ \E a \in ActReqs : ActUpdate(a)
    \/ \E a \in ActReqs, tg \in NotifyOutcomes, em \in NotifyOutcomes :
          ActNotify(a, tg, em)
    \/ \E id \in ActIds, n \in EditNames : Edit(id, n)
    \/ \E p \in BlockInputs, n \in EditNames : EditClient(p, n)

CodeSpec == Init /\ [][CodeNext]_vars

\* -------------------------------------------------- the read specification
\* the read handlers between bookings, confirmations, rejections, edits and
\* blocks that run one after the other
ReadNext ==
    \/ \E b \in ReadBodies, x \in CodeSuffixes : Quiet /\ BookStart(1, b, x)
    \/ BookGetSlot(1)
    \/ BookInsert(1, "true")
    \/ \E a \in ActReqs, id \in 1..MaxAppts, x \in {"confirm", "reject"} :
          Quiet /\ ActStart(a, id, x)
    \/ \E a \in ActReqs : ActUpdate(a)
    \/ \E a \in ActReqs : ActNotify(a, "disabled", "disabled")
    \/ \E p \in BlockInputs : Quiet /\ BlockPhone(p)
    \/ \E st \in {NoStylist, "Iva"} : GetSlots(Date1, st)
    \/ \E t \in {"09:00", "09:30"} : GetAvailableStylists(Date1, t)
    \/ \E c \in StatusCodes : GetStatus(c)

ReadSpec == Init /\ [][ReadNext]_vars

\* -------------------------------------------------- the slot specification
SlotInit ==
    /\ STYLISTS \in SlotRosters
    /\ appointments = <<>>
    /\ blocked_phones = {}
    /\ book = [r \in BookReqs |-> IdleBook]
    /\ act = [a \in ActReqs |-> IdleAct]
    /\ reads = NoRead

\* GET /api/slots between bookings, confirmations and rejections that run
\* one after the other
SlotNext ==
    \/ \E b \in SlotBodies, x \in CodeSuffixes : Quiet /\ BookStart(1, b, x)
    \/ BookGetSlot(1)
    \/ BookInsert(1, "true")
    \/ \E a \in ActReqs, id \in 1..MaxAppts, x \in {"confirm", "reject"} :
          Quiet /\ ActStart(a, id, x)
    \/ \E a \in ActReqs : ActUpdate(a)
    \/ \E a \in ActReqs : ActNotify(a, "disabled", "disabled")
    \/ \E d \in {Date1, BadDate}, st \in {NoStylist, "Iva", "Mia"} :
          GetSlots(d, st)

SlotSpec == SlotInit /\ [][SlotNext]_vars

\* --------------------------------------------- the blocklist specification
\* two clients book, each number in every form, while the administrator
\* blocks and unblocks them
BlockNext ==
    \/ \E b \in BlockBodies, x \in CodeSuffixes : BookStart(1, b, x)
    \/ BookGetSlot(1)
    \/ \E o \in NotifyOutcomes : BookInsert(1, o)
    \/ \E p \in BlockPhones : BlockPhone(p)
    \/ \E p \in BlockPhones : UnblockPhone(p)

BlockSpec == Init /\ [][BlockNext]_vars

\* ------------------------------------------ the stylist-choice specification
PickInit ==
    /\ STYLISTS = Roster2
    /\ appointments = <<>>
    /\ blocked_phones = {}
    /\ book = [r \in BookReqs |-> IdleBook]
    /\ act = [a \in ActReqs |-> IdleAct]
    /\ reads = NoRead

\* GET /api/available-stylists between bookings, confirmations and
\* rejections that run one after the other
PickNext ==
    \/ \E b \in SlotBodies, x \in CodeSuffixes : Quiet /\ BookStart(1, b, x)
    \/ BookGetSlot(1)
    \/ BookInsert(1, "true")
    \/ \E a \in ActReqs, id \in 1..MaxAppts, x \in {"confirm", "reject"} :
          Quiet /\ ActStart(a, id, x)
    \/ \E a \in ActReqs : ActUpdate(a)
    \/ \E a \in ActReqs : ActNotify(a, "disabled", "disabled")
    \/ \E d \in {Date1, Absent}, t \in {"09:00", "09:30"} :
          GetAvailableStylists(d, t)

PickSpec == PickInit /\ [][PickNext]_vars

\* -------------------------------------------- the validation specification
\* one client sends well-formed and malformed bodies while the administrator
\* blocks and unblocks
ValNext ==
    \/ \E b \in ValBodies, x \in CodeSuffixes : BookStart(1, b, x)
    \/ BookGetSlot(1)
    \/ \E o \in NotifyOutcomes : BookInsert(1, o)
    \/ \E p \in BlockInputs : BlockPhone(p)
    \/ \E p \in BlockInputs : UnblockPhone(p)

ValSpec == Init /\ [][ValNext]_vars

\* the event loop runs every callback that is ready: a statement that was
\* issued completes, and a callback whose awaits have settled runs on
ActFairness ==
    \A a \in ActReqs :
        /\ WF_vars(ActUpdate(a))
        /\ WF_vars(\E tg \in AwaitOutcomes, em \in AwaitOutcomes :
                      ActNotify(a, tg, em))

FairActSpec == ActSpec /\ ActFairness

\* ------------------------------------------------------------------ claims
\* a step in which request r runs its INSERT
Inserts(r) == book[r].pc = "insert" /\ book'[r].pc = "done"

\* the row a step has appended
Inserted == appointments'[Len(appointments')]

\* C1: no two pending or confirmed appointments share date, time and a
\* non-null stylist.
C1_UniqueActiveSlot ==
    \A i \in Ids, j \in Ids :
        (/\ i # j
         /\ Active(appointments[i]) /\ Active(appointments[j])
         /\ appointments[i].date = appointments[j].date
         /\ appointments[i].time = appointments[j].time
         /\ appointments[i].stylist # NoStylist)
        => appointments[i].stylist # appointments[j].stylist

\* C2: with a roster of one, two stylist-less requests for one slot do not
\* both succeed: never do two answered requests both hold an id whose rows are
\* pending, on the same date and time, and without stylist.
C2_ExactlyOneSucceeds ==
    Len(STYLISTS) = 1 =>
        \A r1 \in BookReqs, r2 \in BookReqs :
            (/\ r1 # r2
             /\ book[r1].pc = "done" /\ book[r1].res.status = 200
             /\ book[r2].pc = "done" /\ book[r2].res.status = 200)
            => LET a == appointments[book[r1].res.id]
                   b == appointments[book[r2].res.id]
               IN  ~(/\ a.date = b.date /\ a.time = b.time
                     /\ a.stylist = NoStylist /\ b.stylist = NoStylist
                     /\ a.status = "pending" /\ b.status = "pending")

\* C3: for every stylist filter and grid time, available lies between 0 and
\* the capacity of the slot (1 with a filter, else the roster size, or 1 for
\* an empty roster).
C3_AvailableInRange ==
    \A st \in {NoStylist, "Iva", "Mia"}, k \in 1..Len(WORK_HOURS) :
        LET capacity == IF st # NoStylist THEN 1
                        ELSE IF STYLISTS = <<>> THEN 1 ELSE Len(STYLISTS)
            available == computeSlots(Date1, st)[k].available
        IN  0 <= available /\ available <= capacity

\* C4: a request that passes validation and whose canonical phone is on the
\* blocklist is answered 403 "blocked" and inserts no row: the request is
\* over with that step, which leaves the table alone.
C4_BlockedIsRefused ==
    [][\A r \in BookReqs, b \in BookBodies, x \in CodeSuffixes :
          (/\ book'[r] # book[r]
           /\ bookValidate(b) = ""
           /\ canonPhone(stripPhone(b.clientPhone)) \in blocked_phones
           /\ BookStart(r, b, x))
          => /\ book'[r].pc = "done"
             /\ book'[r].res = Fail(403, "blocked")
             /\ appointments' = appointments]_vars

\* a request was refused as blocked while the slot was taken for every
\* stylist choice
C4_Witness ==
    \E r \in BookReqs :
        /\ book[r].pc = "done" /\ book[r].res = Fail(403, "blocked")
        /\ canonPhone(stripPhone(PhoneAIntl)) \in blocked_phones
        /\ slotQuery(Date1, "09:00", NoStylist) # {}
        /\ slotQuery(Date1, "09:00", "Iva") # {}

\* C5: no row is inserted at a moment when its client phone is on the
\* blocklist.
C5_InsertNeverBlocked ==
    [][\A r \in BookReqs :
          Inserts(r) => Inserted.clientPhone \notin blocked_phones]_vars

\* C6: a successful booking lowers the unfiltered available of its time by
\* exactly one, and with a stylist the filtered slot reads taken, available 0.
C6_BookingReflected ==
    [][\A r \in BookReqs : \A k \in 1..Len(WORK_HOURS) :
       \A d \in {book[r].date}, st \in {book[r].st} :
          (Inserts(r) /\ WORK_HOURS[k] = book[r].time)
          => /\ computeSlots(d, NoStylist)'[k].available
                  = computeSlots(d, NoStylist)[k].available - 1
             /\ st # NoStylist
                  => /\ computeSlots(d, st)'[k].status = "taken"
                     /\ computeSlots(d, st)'[k].available = 0]_vars

\* a pending or confirmed row at the date and time of request r, of its
\* stylist when it names one
Conflict(r) ==
    \E i \in Ids :
        /\ appointments[i].date = book[r].date
        /\ appointments[i].time = book[r].time
        /\ appointments[i].status \in {"pending", "confirmed"}
        /\ (book[r].st # NoStylist => appointments[i].stylist = book[r].st)

\* C7: run without interleaving, a validated request from a phone that is not
\* blocked is answered 409 "Slot taken" and inserts nothing exactly when such
\* a row exists; otherwise it inserts one pending row for its date, time and
\* stylist and is answered with the row's id and its confirmation code.
C7_SlotTakenExactly ==
    [][\A r \in BookReqs :
          /\ (book[r].pc = "get_slot" /\ book'[r] # book[r])
               => /\ appointments' = appointments
                  /\ IF Conflict(r)
                     THEN /\ book'[r].pc = "done"
                          /\ book'[r].res = Fail(409, "Slot taken")
                     ELSE book'[r].pc = "insert"
          /\ (book[r].pc = "insert" /\ book'[r] # book[r])
               => /\ ~Conflict(r)
                  /\ Len(appointments') = Len(appointments) + 1
                  /\ SubSeq(appointments', 1, Len(appointments)) = appointments
                  /\ Inserted.status = "pending"
                  /\ Inserted.date = book[r].date
                  /\ Inserted.time = book[r].time
                  /\ Inserted.stylist = book[r].st
                  /\ book'[r].pc = "done"
                  /\ book'[r].res.status = 200
                  /\ book'[r].res.id = Len(appointments')
                  /\ book'[r].res.confirmationCode
                        = Inserted.confirmationCode]_vars

\* a request was answered 409 with a rejected row and a pending or confirmed
\* row in the table
C7_Witness ==
    /\ book[1].pc = "done" /\ book[1].res = Fail(409, "Slot taken")
    /\ \E i \in Ids : appointments[i].status = "rejected"
    /\ \E i \in Ids : Active(appointments[i])

\* C8: a confirmed or rejected appointment never becomes pending again.
C8_NeverBackToPending ==
    [][\A i \in Ids :
          appointments[i].status \in {"confirmed", "rejected"}
          => appointments'[i].status # "pending"]_vars

\* a rejected row that was edited afterwards, next to a later booking
C8_Witness ==
    /\ Len(appointments) = 2
    /\ appointments[1].status = "rejected"
    /\ appointments[1].clientName = cleanName(Name2)
    /\ blocked_phones # {}

\* C9: a row's status changes once: none goes from confirmed to rejected or
\* from rejected to confirmed.
C9_StatusChangesOnce ==
    [][\A i \in Ids :
          /\ appointments[i].status = "confirmed"
               => appointments'[i].status # "rejected"
          /\ appointments[i].status = "rejected"
               => appointments'[i].status # "confirmed"]_vars

\* C10: whatever the operator notification does, the INSERT step answers 200
\* with the new row's id and the request's code, and leaves the new row in
\* the table with status pending.
C10_NotificationIsolated ==
    [][\A r \in BookReqs :
          Inserts(r)
          => /\ Len(appointments') = Len(appointments) + 1
             /\ SubSeq(appointments', 1, Len(appointments)) = appointments
             /\ Inserted.status = "pending"
             /\ Inserted.confirmationCode = book[r].code
             /\ book'[r].res.status = 200
             /\ book'[r].res.id = Len(appointments')
             /\ book'[r].res.confirmationCode = book[r].code]_vars

\* a booking answered 200 although its notification failed, its row pending
C10_Witness ==
    \E r \in BookReqs :
        /\ book[r].pc = "done" /\ book[r].notifyFailed
        /\ book[r].res.status = 200
        /\ appointments[book[r].res.id].status = "pending"

\* C11: an action request for an existing row with a valid action is not
\* refused, its UPDATE sets the row's status to the one the action asks for,
\* and whatever the notification attempts do when they settle (succeed,
\* report failure, throw, or are not made), it is answered 200 with
\* notifications.telegram and notifications.email true exactly when the own
\* attempt succeeded: telegram is false on reject, email is false for a row
\* without an e-mail address.
C11_ActAlwaysSucceeds ==
    [][\A a \in ActReqs :
          /\ \A id \in ActIds, x \in {"confirm", "reject"} :
                (act'[a] # act[a] /\ id \in Ids /\ ActStart(a, id, x))
                => act'[a].pc = "update" /\ act'[a].res = NoRes
          /\ (act[a].pc = "update" /\ act'[a] # act[a])
                => /\ act'[a].pc = "notify"
                   /\ appointments'[act[a].id].status
                        = (IF act[a].action = "confirm" THEN "confirmed"
                           ELSE "rejected")
          /\ \A tg \in NotifyOutcomes, em \in NotifyOutcomes :
                (act[a].pc = "notify" /\ ActNotify(a, tg, em))
                => /\ act'[a].pc = "done"
                   /\ act'[a].res.status = 200
                   /\ act'[a].res.error = ""
                   /\ act'[a].res.telegram = (tg = "true")
                   /\ act'[a].res.email = (em = "true")
                   /\ act[a].action = "reject" => ~act'[a].res.telegram
                   /\ act[a].appt.clientEmail = Absent => ~act'[a].res.email
                   /\ appointments' = appointments]_vars

\* a confirmation answered 200 whose e-mail was sent and whose message was
\* not, for a row that has an e-mail address and is confirmed
C11_Witness ==
    \E a \in ActReqs :
        /\ act[a].pc = "done" /\ act[a].res.status = 200
        /\ act[a].res.email /\ ~act[a].res.telegram
        /\ \E i \in Ids : /\ appointments[i].status = "confirmed"
                           /\ appointments[i].clientEmail = cleanEmail(Email1)

\* C12: once the UPDATE of an action request has been committed, the request
\* is eventually answered, whatever its notification attempts do.
C12_ActEventuallyResponds ==
    \A a \in ActReqs : (act[a].pc = "notify") ~> (act[a].pc = "done")

\* the six rules of book() in the order of the claim, each true of a body
\* that violates it
Violations(b) ==
    <<\/ b.date = Absent \/ b.time = "" \/ b.service = ""
      \/ b.clientName = Absent \/ b.clientPhone = Absent,
      ~DATE_REGEX(b.date),
      \A k \in 1..Len(WORK_HOURS) : WORK_HOURS[k] # b.time,
      b.service \notin DOMAIN SERVICES,
      ~PHONE_REGEX(stripPhone(b.clientPhone)),
      b.clientEmail # Absent /\ ~includes(b.clientEmail, "@")>>

Kinds == <<"Missing fields", "Invalid date", "Invalid time", "Invalid service",
           "Invalid phone", "Invalid email">>

\* the kind of the first rule the body violates, "" when it violates none
FirstViolated(b) ==
    IF \E k \in 1..6 : Violations(b)[k]
    THEN Kinds[CHOOSE k \in 1..6 :
                 /\ Violations(b)[k]
                 /\ \A j \in 1..(k - 1) : ~Violations(b)[j]]
    ELSE ""

\* C13: a request that violates one or more of the six rules is answered 400
\* with the kind of the first rule it violates, in the order MissingField,
\* InvalidDate, InvalidTime, InvalidService, InvalidPhone, InvalidEmail; a
\* request is answered 403 or 409 only when it passes all six, 403 whenever
\* its phone is blocked, whether or not the slot is taken; and no step that
\* answers a failure changes the appointments table.
C13_FirstFailureWins ==
    [][\A r \in BookReqs :
          /\ \A b \in ValBodies, x \in CodeSuffixes :
                (book'[r] # book[r] /\ BookStart(r, b, x))
                => IF FirstViolated(b) # ""
                   THEN /\ book'[r].pc = "done"
                        /\ book'[r].res = Fail(400, FirstViolated(b))
                   ELSE IF canonPhone(stripPhone(b.clientPhone))
                              \in blocked_phones
                   THEN /\ book'[r].pc = "done"
                        /\ book'[r].res = Fail(403, "blocked")
                   ELSE book'[r].pc = "get_slot" /\ book'[r].res = NoRes
          /\ (book'[r] # book[r] /\ book'[r].res.status = 409)
                => book[r].pc = "get_slot"
          /\ (book'[r] # book[r] /\ book'[r].res.status >= 400)
                => appointments' = appointments]_vars

\* a request was answered "Invalid date" while its phone was blocked and the
\* slot was taken
C13_Witness ==
    /\ book[1].pc = "done" /\ book[1].res = Fail(400, "Invalid date")
    /\ canonPhone(stripPhone(PhoneAIntl)) \in blocked_phones
    /\ slotQuery(Date1, "09:00", NoStylist) # {}

\* C14, as stated: an action request with a valid action and an id that
\* matches no appointment is answered 404 "Not found".
C14_UnknownIdIsNotFound ==
    [][\A a \in ActReqs, id \in ActIds, x \in {"confirm", "reject"} :
          (act'[a] # act[a] /\ id \notin Ids /\ ActStart(a, id, x))
          => act'[a].res = Fail(404, "Not found")]_vars

\* C14, amended: an action request with a valid action and an id other than
\* 0 that matches no appointment is answered 404 "Not found"; one with the
\* id 0 or with an action outside {confirm, reject} is answered 400
\* "Invalid"; either is over with that step, which changes no appointment
\* row and reports no notification.
C14_RefusalsChangeNothing ==
    [][\A a \in ActReqs, id \in ActIds, x \in ActActions :
          (/\ act'[a] # act[a]
           /\ (id \notin Ids \/ x \notin {"confirm", "reject"})
           /\ ActStart(a, id, x))
          => /\ act'[a].pc = "done"
             /\ act'[a].res =
                  (IF id = 0 \/ x \notin {"confirm", "reject"}
                   THEN Fail(400, "Invalid") ELSE Fail(404, "Not found"))
             /\ ~act'[a].res.telegram /\ ~act'[a].res.email
             /\ appointments' = appointments]_vars

\* a request for an id beyond the rows of the table was answered 404
C14_Witness ==
    \E a \in ActReqs :
        /\ act[a].pc = "done" /\ act[a].res = Fail(404, "Not found")
        /\ appointments # <<>>

\* C15: no two appointments have the same confirmationCode.
C15_CodesUnique ==
    \A i \in Ids, j \in Ids :
        i # j => appointments[i].confirmationCode
                    # appointments[j].confirmationCode

\* C15, second half: an appointment's confirmationCode never changes after
\* creation.
C15_CodeNeverChanges ==
    [][\A i \in Ids :
          /\ i \in 1..Len(appointments')
          /\ appointments'[i].confirmationCode
                = appointments[i].confirmationCode]_vars

\* C16: every appointment row has a stylist that is null or the name of a
\* roster entry, so a request naming a stylist outside the roster creates no
\* row.
C16_StylistOnRoster ==
    \A i \in Ids :
        appointments[i].stylist # NoStylist
        => \E k \in 1..Len(STYLISTS) : STYLISTS[k] = appointments[i].stylist

\* row i is the same before and after the step but for column col
SameBut(i, col) ==
    [c \in DOMAIN appointments[i] \ {col} |-> appointments'[i][c]]
        = [c \in DOMAIN appointments[i] \ {col} |-> appointments[i][c]]

\* C17: the UPDATE of an action request changes nothing but the status of
\* the row with its id, and no other step of the request changes a row; an
\* edit changes nothing but clientName; and the price of every row is the
\* catalog price of its service.
C17_OnlyStatusOnlyName ==
    [][/\ \A a \in ActReqs :
            act'[a] # act[a]
            => /\ Len(appointments') = Len(appointments)
               /\ blocked_phones' = blocked_phones
               /\ \A i \in Ids :
                     IF act[a].pc = "update" /\ i = act[a].id
                     THEN SameBut(i, "status")
                     ELSE appointments'[i] = appointments[i]
       /\ \A id \in ActIds, n \in EditNames :
            Edit(id, n)
            => /\ Len(appointments') = Len(appointments)
               /\ \A i \in Ids :
                     IF i = id THEN SameBut(i, "clientName")
                     ELSE appointments'[i] = appointments[i]
       /\ \A p \in BlockInputs, n \in EditNames :
            EditClient(p, n)
            => /\ Len(appointments') = Len(appointments)
               /\ \A i \in Ids : SameBut(i, "clientName")
       /\ \A i \in 1..Len(appointments') :
            appointments'[i].price = SERVICES[appointments'[i].service]]_vars

\* a row that was confirmed and renamed, at the price of its service
C17_Witness ==
    \E i \in Ids :
        /\ appointments[i].status = "confirmed"
        /\ appointments[i].clientName = cleanName(Name2)
        /\ appointments[i].service = "Manicure"
        /\ appointments[i].price = 35

\* C18: a step of GET /api/slots, GET /api/available-stylists or GET
\* /api/status leaves the appointments and the blocklist unchanged, and a
\* status request that follows a status request for the same code in any
\* letter case, with the appointments as they were, is answered the same:
\* the same columns of the same row, or 404 both times.
C18_ReadsAreReadOnly ==
    [][/\ reads' # reads
            => appointments' = appointments /\ blocked_phones' = blocked_phones
       /\ \A c \in StatusCodes :
            (/\ reads' # reads
             /\ reads.op = "status"
             /\ reads.at = appointments
             /\ toLowerCase(c) = toLowerCase(reads.code)
             /\ GetStatus(c))
            => /\ reads'.http = reads.http
               /\ reads'.row = reads.row]_vars

\* a confirmed row was found under its code in another letter case, by a
\* status request that followed a status request on the same tables
C18_Witness ==
    /\ reads.op = "status" /\ reads.again
    /\ reads.http = 200 /\ reads.row.status = "confirmed"
    /\ reads.code # toUpperCase(reads.code)
    /\ blocked_phones # {}

\* C19: for a well-formed date, GET /api/slots answers one entry per grid
\* time, in grid order, with available = capacity minus the number of pending
\* or confirmed rows at that date and time (of the stylist asked for, when
\* one is), where the capacity is 1 with a stylist and else the roster size,
\* or 1 for an empty roster; status is taken exactly when available <= 0 and
\* free otherwise.  With no appointments and a roster of three, every entry
\* is available 3, free.
C19_SlotsFormula ==
    [][\A d \in {Date1}, st \in {NoStylist, "Iva", "Mia"} :
          (reads' # reads /\ GetSlots(d, st))
          => LET capacity == IF st # NoStylist THEN 1
                             ELSE IF STYLISTS = <<>> THEN 1 ELSE Len(STYLISTS)
                 occupancy(t) ==
                     Cardinality({i \in Ids :
                         /\ appointments[i].date = d
                         /\ appointments[i].time = t
                         /\ appointments[i].status # "rejected"
                         /\ (st # NoStylist => appointments[i].stylist = st)})
             IN  /\ reads'.http = 200
                 /\ Len(reads'.slots) = Len(WORK_HOURS)
                 /\ \A k \in 1..Len(WORK_HOURS) :
                       /\ reads'.slots[k].time = WORK_HOURS[k]
                       /\ reads'.slots[k].available
                             = capacity - occupancy(WORK_HOURS[k])
                       /\ reads'.slots[k].status
                             = (IF reads'.slots[k].available <= 0
                                THEN "taken" ELSE "free")
                       /\ (appointments = <<>> /\ Len(STYLISTS) = 3
                            /\ st = NoStylist)
                            => /\ reads'.slots[k].available = 3
                               /\ reads'.slots[k].status = "free"]_vars

\* with a roster of three, a rejected and a pending row at 09:00, the slots
\* were answered with two places left at 09:00 and three at 09:30
C19_Witness ==
    /\ Len(STYLISTS) = 3
    /\ reads.op = "slots" /\ reads.http = 200
    /\ reads.slots[1].available = 2 /\ reads.slots[1].status = "free"
    /\ reads.slots[2].available = 3
    /\ \E i \in Ids, j \in Ids :
          /\ appointments[i].time = "09:00"
          /\ appointments[i].status = "rejected"
          /\ appointments[j].time = "09:00"
          /\ appointments[j].status = "pending"

\* the canonical form of a phone as /api/book computes it
BookCanon(p) == canonPhone(stripPhone(p))

\* C20: blocking is independent of the form of the phone.  After
\* blockPhone(p) every phone q of the same canonical form is blocked, and it
\* stays so until unblockPhone is called with a phone of that form, after
\* which no such q is blocked; a book() request that passes validation is
\* answered 403 exactly when the canonical form of its phone is blocked; and
\* blocking a phone that is blocked, in any form, adds no entry.
C20_BlockingByCanonicalForm ==
    [][/\ \A p \in BlockPhones, q \in BlockPhones :
            BookCanon(p) = BookCanon(q)
            => /\ BlockPhone(p)
                    => /\ BookCanon(q) \in blocked_phones'
                       /\ BookCanon(q) \in blocked_phones
                            => blocked_phones' = blocked_phones
                       /\ Cardinality(blocked_phones')
                            <= Cardinality(blocked_phones) + 1
               /\ UnblockPhone(p) => BookCanon(q) \notin blocked_phones'
       /\ \A q \in BlockPhones :
            (BookCanon(q) \in blocked_phones
             /\ BookCanon(q) \notin blocked_phones')
            => \E p \in BlockPhones :
                  BookCanon(p) = BookCanon(q) /\ UnblockPhone(p)
       /\ \A r \in BookReqs, b \in BlockBodies, x \in CodeSuffixes :
            (book'[r] # book[r] /\ BookStart(r, b, x))
            => (book'[r].res = Fail(403, "blocked")
                  <=> BookCanon(b.clientPhone) \in blocked_phones)]_vars

\* a client who booked before was refused as blocked, with one blocklist
\* entry for the number
C20_Witness ==
    /\ book[1].pc = "done" /\ book[1].res = Fail(403, "blocked")
    /\ blocked_phones = {BookCanon(PhoneAIntl)}
    /\ \E i \in Ids : appointments[i].clientPhone = BookCanon(PhoneA)

\* the available-stylists request answered last was answered for the date
\* and time of booking request r, from the table as it is now
PickedFor(r) ==
    /\ reads.op = "stylists" /\ reads.http = 200
    /\ reads.at = appointments
    /\ reads.date = book[r].date /\ reads.time = book[r].time
    /\ \E k \in 1..Len(STYLISTS) : STYLISTS[k] = book[r].st

\* booking request r names a stylist of the answer
Offered(r) == \E k \in 1..Len(reads.stylists) : reads.stylists[k] = book[r].st

\* C21: when a valid booking from a phone that is not blocked names a roster
\* stylist and follows an available-stylists answer for its date and time
\* with no change of the table in between, it inserts its row and is answered
\* 200 if the answer held the stylist, and is answered 409 "Slot taken" if
\* it did not.
C21_OfferedThenBookable ==
    [][\A r \in BookReqs :
          /\ (book[r].pc = "get_slot" /\ book'[r] # book[r] /\ PickedFor(r))
               => /\ appointments' = appointments
                  /\ IF Offered(r)
                     THEN book'[r].pc = "insert"
                     ELSE /\ book'[r].pc = "done"
                          /\ book'[r].res = Fail(409, "Slot taken")
          /\ (book[r].pc = "insert" /\ book'[r] # book[r] /\ PickedFor(r))
               => /\ Offered(r)
                  /\ Len(appointments') = Len(appointments) + 1
                  /\ Inserted.stylist = book[r].st
                  /\ Inserted.date = book[r].date
                  /\ Inserted.time = book[r].time
                  /\ book'[r].pc = "done"
                  /\ book'[r].res.status = 200
                  /\ book'[r].res.id = Len(appointments')]_vars

\* with Iva booked at a time, the answer for that time was Mia alone, and
\* the booking of Mia that followed was answered 200
C21_Witness ==
    /\ reads.op = "stylists" /\ reads.stylists = <<"Mia">>
    /\ Len(appointments) = 2
    /\ reads.at = SubSeq(appointments, 1, 1)
    /\ appointments[1].stylist = "Iva" /\ Active(appointments[1])
    /\ appointments[2].stylist = "Mia"
    /\ appointments[2].time = reads.time
    /\ book[1].pc = "done" /\ book[1].res.status = 200 /\ book[1].res.id = 2

\* row j is pending or confirmed on the date, time and stylist d, t, st
OnTriple(j, d, t, st) ==
    /\ Active(appointments[j])
    /\ appointments[j].date = d /\ appointments[j].time = t
    /\ appointments[j].stylist = st

\* row j is pending or confirmed on the date and time d, t, of stylist st
\* when st is one, of any stylist or of none when st is null
InTheWay(j, d, t, st) ==
    /\ Active(appointments[j])
    /\ appointments[j].date = d /\ appointments[j].time = t
    /\ (st # NoStylist => appointments[j].stylist = st)

\* a rejected row on the date, time and stylist d, t, st
RejectedOn(d, t, st) ==
    \E i \in Ids :
        /\ appointments[i].status = "rejected"
        /\ appointments[i].date = d /\ appointments[i].time = t
        /\ appointments[i].stylist = st

\* C22, as stated: when a rejection updates the only pending or confirmed row
\* on a date, time and stylist (null included), GET /api/slots for the date
\* and that stylist reads the time free afterwards; and a valid booking from
\* a phone that is not blocked, for the date, time and stylist of a rejected
\* row with no pending or confirmed row on the same three, inserts its row
\* and is answered 200.
C22_RejectReleasesSlot ==
    [][/\ \A a \in ActReqs : \A i \in {act[a].id} :
            (/\ act[a].pc = "update" /\ act'[a] # act[a]
             /\ act[a].action = "reject"
             /\ \A j \in Ids :
                   OnTriple(j, appointments[i].date, appointments[i].time,
                            appointments[i].stylist) <=> j = i)
            => \A d \in {appointments[i].date}, t \in {appointments[i].time},
                  st \in {appointments[i].stylist}, k \in 1..Len(WORK_HOURS) :
                  WORK_HOURS[k] = t => computeSlots(d, st)'[k].status = "free"
       /\ \A r \in BookReqs :
            (/\ book[r].pc \in {"get_slot", "insert"} /\ book'[r] # book[r]
             /\ RejectedOn(book[r].date, book[r].time, book[r].st)
             /\ \A j \in Ids :
                   ~OnTriple(j, book[r].date, book[r].time, book[r].st))
            => IF book[r].pc = "get_slot"
               THEN book'[r].pc = "insert"
               ELSE /\ book'[r].res.status = 200
                    /\ Len(appointments') = Len(appointments) + 1
                    /\ Inserted.status = "pending"]_vars

\* C22, amended: the same, for a row that is the only pending or confirmed
\* one in the way of a booking of its date, time and stylist: of its stylist
\* when it has one, of any stylist or none when it has none.
C22_RejectReleasesLookup ==
    [][/\ \A a \in ActReqs : \A i \in {act[a].id} :
            (/\ act[a].pc = "update" /\ act'[a] # act[a]
             /\ act[a].action = "reject"
             /\ \A j \in Ids :
                   InTheWay(j, appointments[i].date, appointments[i].time,
                            appointments[i].stylist) <=> j = i)
            => \A d \in {appointments[i].date}, t \in {appointments[i].time},
                  st \in {appointments[i].stylist}, k \in 1..Len(WORK_HOURS) :
                  WORK_HOURS[k] = t => computeSlots(d, st)'[k].status = "free"
       /\ \A r \in BookReqs :
            (/\ book[r].pc \in {"get_slot", "insert"} /\ book'[r] # book[r]
             /\ RejectedOn(book[r].date, book[r].time, book[r].st)
             /\ \A j \in Ids :
                   ~InTheWay(j, book[r].date, book[r].time, book[r].st))
            => IF book[r].pc = "get_slot"
               THEN book'[r].pc = "insert"
               ELSE /\ book'[r].res.status = 200
                    /\ Len(appointments') = Len(appointments) + 1
                    /\ Inserted.status = "pending"]_vars

\* Iva's 09:00 was rejected and booked again, answered 200
C22_Witness ==
    /\ Len(appointments) = 2
    /\ appointments[1].status = "rejected"
    /\ appointments[1].stylist = "Iva" /\ appointments[2].stylist = "Iva"
    /\ appointments[1].time = "09:00" /\ appointments[2].time = "09:00"
    /\ appointments[2].status = "pending"
    /\ book[1].pc = "done" /\ book[1].res.status = 200 /\ book[1].res.id = 2

====
